---- MODULE Spec2Model ----
(***************************************************************************)
(* Room lifecycle and turn authority of the chess relay server.           *)
(* The store `rooms`, the per-socket membership, the socket.io channels   *)
(* and the messages emitted by each handler are modelled from the         *)
(* server source; one action per event handler, run to completion.        *)
(***************************************************************************)
EXTENDS Integers, Sequences, FiniteSets, TLC

\* ---------------------------------------------------------------- bounds
\* Room codes genCode can return (the program draws from 26^6 of them).
Codes == {"AAAAAA", "BBBBBB"}
\* Identities clients supply in join_room.
Uids == {"u1", "u2", "u3"}
\* Socket ids; a socket id is used by one connection only.
Sockets == {"s1", "s2", "s3"}
\* A field that is missing from a payload (or is not a string).
NoValue == "undefined"
\* Handlers run only while the clock is at most MaxEventTicks ticks.
MaxEventTicks == 2

\* ------------------------------------------------------ program constants
TEN_MINUTES == 10 * 60 * 1000
SWEEP_INTERVAL == 60 * 1000
\* The clock is observed at multiples of TickMs milliseconds: a room that
\* was last active one tick ago is exactly at the retention window, and one
\* that was last active two ticks ago is past it.
TickMs == TEN_MINUTES
\* The clock can always run past the retention window of the last event.
MaxTicks == MaxEventTicks + 2

VARIABLES
    rooms,        \* the store: code -> RoomState, for the codes that are keys
    membership,   \* socket.data.membership: socket -> {code, uid}, where set
    connected,    \* sockets whose connection is open
    closed,       \* sockets whose disconnect event has been handled
    channels,     \* socket.io rooms: socket -> set of codes it has joined
    now,          \* Date.now()
    out,          \* messages emitted by the last handler, in order
    accepted,     \* code -> moves accepted since sideToMove was last set WHITE, modulo 2
    heldSide      \* code -> (uid -> side held when it left a room that stayed occupied)

vars == <<rooms, membership, connected, closed, channels, now, out, accepted, heldSide>>

\* --------------------------------------------------------------- helpers
\* JavaScript values of payload fields, tagged with their type.
JUndef == [t |-> "undefined"]
JNull == [t |-> "null"]
JInt(n) == [t |-> "int", v |-> n]
JStr(x) == [t |-> "string", v |-> x]
JBool(b) == [t |-> "boolean", v |-> b]

Restrict(f, S) == [x \in S |-> f[x]]

Put(f, k, v) == [x \in (DOMAIN f) \cup {k} |-> IF x = k THEN v ELSE f[x]]

RemoveAt(seq, i) == [j \in 1..(Len(seq) - 1) |-> IF j < i THEN seq[j] ELSE seq[j + 1]]

\* Array.prototype.findIndex, 1-based; 0 when no element matches.
FindIndex(players, uid) ==
    IF \E i \in 1..Len(players) : players[i].uid = uid
    THEN CHOOSE i \in 1..Len(players) :
            /\ players[i].uid = uid
            /\ \A j \in 1..(i - 1) : players[j].uid # uid
    ELSE 0

\* players.find((p) => p.uid !== uid), 1-based index; 0 when none.
FindOther(players, uid) ==
    IF \E i \in 1..Len(players) : players[i].uid # uid
    THEN CHOOSE i \in 1..Len(players) :
            /\ players[i].uid # uid
            /\ \A j \in 1..(i - 1) : players[j].uid = uid
    ELSE 0

initialState == [lastMove |-> JNull, boardFEN |-> "startpos"]

createRoom(code, t) ==
    [code |-> code, players |-> <<>>, state |-> initialState,
     sideToMove |-> "WHITE", lastActive |-> t]

toLowerCase(color) == IF color = "WHITE" THEN "white" ELSE "black"

\* ------------------------------------------------------------- messages
\* Sockets that receive io.to(code).emit: the open sockets in channel code.
InChannel(chs, conn, code) == {s \in conn : code \in chs[s]}

Msg(event, to, payload) == [event |-> event, to |-> to, payload |-> payload]

ErrorMsg(s, message) == Msg("error_msg", {s}, [message |-> message])

RoomStateMsg(room, chs, conn) ==
    Msg("room_state", InChannel(chs, conn, room.code),
        [code |-> room.code,
         players |-> [i \in 1..Len(room.players) |->
                        [uid |-> room.players[i].uid, color |-> room.players[i].color]],
         sideToMove |-> room.sideToMove,
         state |-> room.state])

\* --------------------------------------------------------- handleDisconnect
NoHeld == [uid |-> NoValue, color |-> "NONE"]

\* The part of the state a handler body reads and writes; `out` collects
\* the messages it emits.
Store == [rooms |-> rooms, membership |-> membership,
          accepted |-> accepted, heldSide |-> heldSide, out |-> <<>>]

\* Mutant: the room is left as it was when its last participant leaves.
ResetIfEmpty_KeepsState(room) == room

\* if (room.players.length === 0) { sideToMove = "WHITE"; state = initialState() }
ResetIfEmpty(room) ==
    IF Len(room.players) = 0
    THEN [room EXCEPT !.sideToMove = "WHITE", !.state = initialState]
    ELSE room

\* handleDisconnect(socket), on store st, with the channels chs as they are
\* when it is called and the clock at t.
handleDisconnect(st, chs, conn, s, t) ==
    IF s \notin DOMAIN st.membership THEN st
    ELSE
      LET code == st.membership[s].code
          uid  == st.membership[s].uid
      IN IF code \notin DOMAIN st.rooms THEN st
         ELSE
           LET room  == st.rooms[code]
               index == FindIndex(room.players, uid)
               room1 == IF index # 0
                        THEN [room EXCEPT !.players = RemoveAt(room.players, index),
                                          !.lastActive = t]
                        ELSE room
               emitted == IF index # 0
                          THEN <<RoomStateMsg(room1, chs, conn)>>
                          ELSE <<>>
               room2 == ResetIfEmpty(room1)
           IN [rooms      |-> [st.rooms EXCEPT ![code] = room2],
               membership |-> Restrict(st.membership, (DOMAIN st.membership) \ {s}),
               accepted   |-> IF Len(room1.players) = 0
                              THEN [st.accepted EXCEPT ![code] = 0]
                              ELSE st.accepted,
               heldSide   |-> IF Len(room1.players) = 0
                              THEN [st.heldSide EXCEPT ![code] = NoHeld]
                              ELSE IF index # 0
                              THEN [st.heldSide EXCEPT ![code] =
                                      [uid |-> uid, color |-> room.players[index].color]]
                              ELSE st.heldSide,
               out        |-> st.out \o emitted]

\* What a handler leaves behind: the store, and the messages it emitted.
Commit(st) ==
    /\ rooms' = st.rooms
    /\ membership' = st.membership
    /\ accepted' = st.accepted
    /\ heldSide' = st.heldSide
    /\ out' = st.out

\* A handler that threw: the catch block sends error_msg to the socket alone.
Throw(s, message) ==
    /\ out' = <<ErrorMsg(s, message)>>
    /\ UNCHANGED <<rooms, membership, accepted, heldSide>>

\* The clock value the handlers may run at.
EventTime == now <= MaxEventTicks * TickMs

\* socket.on("disconnect"): socket.io has taken the socket out of its
\* channels before the handler runs.
Disconnect(s) ==
    /\ s \in connected
    /\ EventTime
    /\ LET chs == [channels EXCEPT ![s] = {}]
           conn == connected \ {s}
       IN /\ Commit(handleDisconnect(Store, chs, conn, s, now))
          /\ channels' = chs
          /\ connected' = conn
    /\ closed' = closed \cup {s}
    /\ UNCHANGED now

\* io.on("connection"): a new socket, with no membership and in no channel.
Connect(s) ==
    /\ s \notin connected
    /\ s \notin closed
    /\ EventTime
    /\ connected' = connected \cup {s}
    /\ out' = <<>>
    /\ UNCHANGED <<rooms, membership, closed, channels, now, accepted, heldSide>>

\* ----------------------------------------------------------- handleJoinRoom
\* Mutant: the capacity check is missing.
JoinError_NoFullCheck(rms, code, uid) ==
    IF code = NoValue THEN "Room code is required"
    ELSE IF uid = NoValue THEN "User id is required"
    ELSE IF code \notin DOMAIN rms THEN "Room not found"
    ELSE "ok"

\* The error handleJoinRoom throws on payload {code, uid}, or "ok".
JoinError(rms, code, uid) ==
    IF code = NoValue THEN "Room code is required"
    ELSE IF uid = NoValue THEN "User id is required"
    ELSE IF code \notin DOMAIN rms THEN "Room not found"
    ELSE IF FindIndex(rms[code].players, uid) = 0 /\ Len(rms[code].players) >= 2
    THEN "Room is full"
    ELSE "ok"

\* The colour given to a participant that is pushed onto players.
NewColor(players) == IF Len(players) = 0 THEN "WHITE" ELSE "BLACK"

\* Mutant: a returning identity is pushed as if it were new.
Reconnect_AsNew(players, existing, s) ==
    Append(players, [uid |-> players[existing].uid,
                     color |-> IF Len(players) = 0 THEN "WHITE" ELSE "BLACK",
                     socketId |-> s])

\* existing.socketId = socket.id
Reconnect(players, existing, s) == [players EXCEPT ![existing].socketId = s]

\* Mutant: the opponent is notified on a reconnection as well.
NotifyOpponent_OnReconnect(players, existing) == Len(players) = 2

\* if (room.players.length === 2 && !existing)
NotifyOpponent(players, existing) == Len(players) = 2 /\ existing = 0

\* Mutant: a socket that joins another room is never taken out of its
\* previous one.
Switching_Never(mem, s, code) == FALSE

\* if (socket.data.membership && socket.data.membership.code !== code)
Switching(mem, s, code) == s \in DOMAIN mem /\ mem[s].code # code

\* The body of handleJoinRoom past its checks, on store st.
joinRoom(st, chs, conn, s, code, uid, t) ==
    LET switching == Switching(st.membership, s, code)
        chs1 == IF switching
                THEN [chs EXCEPT ![s] = @ \ {st.membership[s].code}]
                ELSE chs
        st1  == IF switching THEN handleDisconnect(st, chs1, conn, s, t) ELSE st
        room == st1.rooms[code]
        existing == FindIndex(room.players, uid)
        players1 == IF existing # 0
                    THEN Reconnect(room.players, existing, s)
                    ELSE Append(room.players,
                                [uid |-> uid, color |-> NewColor(room.players),
                                 socketId |-> s])
        player == IF existing # 0 THEN players1[existing] ELSE players1[Len(players1)]
        room1 == [room EXCEPT !.players = players1, !.lastActive = t]
        chs2 == [chs1 EXCEPT ![s] = @ \cup {code}]
        other == FindOther(players1, uid)
        joinedMsg == <<Msg("room_joined", {s},
                           [code |-> room.code, color |-> toLowerCase(player.color)])>>
        opponentMsg == IF NotifyOpponent(players1, existing) /\ other # 0
                       THEN <<Msg("opponent_joined",
                                  {players1[other].socketId} \cap conn, [empty |-> TRUE])>>
                       ELSE <<>>
    IN [store |-> [rooms      |-> [st1.rooms EXCEPT ![code] = room1],
                   membership |-> Put(st1.membership, s, [code |-> code, uid |-> uid]),
                   accepted   |-> st1.accepted,
                   heldSide   |-> IF st1.heldSide[code].uid = uid
                                  THEN [st1.heldSide EXCEPT ![code] = NoHeld]
                                  ELSE st1.heldSide,
                   out        |-> st1.out \o joinedMsg \o opponentMsg
                                    \o <<RoomStateMsg(room1, chs2, conn)>>],
        channels |-> chs2]

\* Mutant: the previous room is left before the payload and the target room
\* are checked.
JoinRoom_LeaveFirst(s, code, uid) ==
    /\ s \in connected
    /\ EventTime
    /\ IF JoinError(rooms, code, uid) # "ok"
       THEN LET switching == s \in DOMAIN membership /\ membership[s].code # code
                chs1 == IF switching
                        THEN [channels EXCEPT ![s] = @ \ {membership[s].code}]
                        ELSE channels
                st1 == IF switching
                       THEN handleDisconnect(Store, chs1, connected, s, now)
                       ELSE Store
            IN /\ Commit([st1 EXCEPT !.out = <<ErrorMsg(s, JoinError(rooms, code, uid))>>])
               /\ channels' = chs1
       ELSE LET r == joinRoom(Store, channels, connected, s, code, uid, now)
            IN /\ Commit(r.store)
               /\ channels' = r.channels
    /\ UNCHANGED <<connected, closed, now>>

\* socket.on("join_room") with payload {code, uid}.
JoinRoom(s, code, uid) ==
    /\ s \in connected
    /\ EventTime
    /\ IF JoinError(rooms, code, uid) # "ok"
       THEN /\ Throw(s, JoinError(rooms, code, uid))
            /\ UNCHANGED channels
       ELSE LET r == joinRoom(Store, channels, connected, s, code, uid, now)
            IN /\ Commit(r.store)
               /\ channels' = r.channels
    /\ UNCHANGED <<connected, closed, now>>

\* --------------------------------------------------------------- handleMove
MoveObject(from, to, promo, isCastle, isEnPassant, isDoublePawnPush) ==
    [t |-> "object", from |-> from, to |-> to, promo |-> promo,
     isCastle |-> isCastle, isEnPassant |-> isEnPassant,
     isDoublePawnPush |-> isDoublePawnPush]

\* The move payloads clients send: none, the opening move of Scenario B,
\* a promotion, and a move whose squares are equal.
ScenarioMove == MoveObject(JInt(12), JInt(28), JUndef, JUndef, JUndef, JUndef)

MoveInputs ==
    { JUndef,
      ScenarioMove,
      MoveObject(JInt(52), JInt(60), JStr("Q"), JBool(FALSE), JUndef, JUndef),
      MoveObject(JInt(5), JInt(5), JUndef, JUndef, JUndef, JUndef) }

\* Values clients put in the promo field, and in a flag field.
PromoInputs ==
    {JUndef, JNull, JStr("Q"), JStr("R"), JStr("B"), JStr("N"),
     JStr("K"), JStr("q"), JStr(""), JInt(1), JBool(TRUE)}

FlagInputs == {JUndef, JNull, JBool(TRUE), JBool(FALSE), JStr("true"), JInt(1)}

\* Values clients put in from and to: squares on and off the board, a
\* string, nothing.
SquareInputs ==
    { <<JInt(12), JInt(28)>>, <<JInt(0), JInt(63)>>, <<JInt(63), JInt(0)>>,
      <<JInt(5), JInt(5)>>, <<JInt(70), JInt(28)>>, <<JInt(12), JInt(64)>>,
      <<JInt(0 - 1), JInt(28)>>, <<JInt(70), JInt(70)>>,
      <<JStr("12"), JInt(28)>>, <<JInt(12), JUndef>>, <<JUndef, JUndef>> }

\* Move objects that differ from a well-formed one in the squares, in the
\* promotion piece or in one flag, and one with a field of its own.
PayloadInputs ==
    {MoveObject(q[1], q[2], JUndef, JUndef, JUndef, JUndef) : q \in SquareInputs}
    \cup {MoveObject(JInt(52), JInt(60), x, JUndef, JUndef, JUndef) : x \in PromoInputs}
    \cup {MoveObject(JInt(4), JInt(6), JUndef, x, JUndef, JUndef) : x \in FlagInputs}
    \cup {MoveObject(JInt(36), JInt(43), JUndef, JUndef, x, JUndef) : x \in FlagInputs}
    \cup {MoveObject(JInt(12), JInt(28), JUndef, JUndef, JUndef, x) : x \in FlagInputs}
    \cup {[t |-> "object", from |-> JInt(12), to |-> JInt(28), promo |-> JUndef,
           isCastle |-> JUndef, isEnPassant |-> JUndef, isDoublePawnPush |-> JUndef,
           piece |-> JStr("P")]}

\* Mutant: a promo of null is validated like a piece.
PromoProvided_NullToo(x) == x.t # "undefined"

\* promo !== undefined && promo !== null
PromoProvided(x) == x.t \notin {"undefined", "null"}

\* The error validateMovePayload throws on a move object, or "ok".
validateMovePayload(move) ==
    IF move.from.t # "int" \/ move.to.t # "int"
    THEN "Move coordinates must be integers"
    ELSE IF move.from.v < 0 \/ move.from.v > 63 \/ move.to.v < 0 \/ move.to.v > 63
    THEN "Squares must be between 0 and 63"
    ELSE IF move.from.v = move.to.v
    THEN "From and to squares must differ"
    ELSE IF /\ PromoProvided(move.promo)
            /\ (move.promo.t # "string" \/ move.promo.v \notin {"Q", "R", "B", "N"})
    THEN "Promotion piece must be Q, R, B, or N"
    ELSE IF move.isCastle.t \notin {"undefined", "boolean"}
    THEN "isCastle must be boolean"
    ELSE IF move.isEnPassant.t \notin {"undefined", "boolean"}
    THEN "isEnPassant must be boolean"
    ELSE IF move.isDoublePawnPush.t \notin {"undefined", "boolean"}
    THEN "isDoublePawnPush must be boolean"
    ELSE "ok"

validateLegalMove(state, move) == TRUE

\* Mutant: the promotion field is stored as it was submitted.
OrNull_AsSubmitted(x) == x

\* x || null, for the values validateMovePayload lets through as promo.
OrNull(x) == IF x.t = "string" /\ x.v # "" THEN x ELSE JNull

\* x || false, for the values validateMovePayload lets through as a flag.
OrFalse(x) == IF x.t = "boolean" /\ x.v THEN x ELSE JBool(FALSE)

Flip(side) == IF side = "WHITE" THEN "BLACK" ELSE "WHITE"

\* Mutant: the last move is stored but the turn is not passed.
applyMoveServer_NoFlip(room, move) ==
    [room EXCEPT
       !.state.lastMove = [from |-> move.from, to |-> move.to,
                           promo |-> OrNull(move.promo),
                           isCastle |-> OrFalse(move.isCastle),
                           isEnPassant |-> OrFalse(move.isEnPassant),
                           isDoublePawnPush |-> OrFalse(move.isDoublePawnPush)]]

applyMoveServer(room, move) ==
    [room EXCEPT
       !.state.lastMove = [from |-> move.from, to |-> move.to,
                           promo |-> OrNull(move.promo),
                           isCastle |-> OrFalse(move.isCastle),
                           isEnPassant |-> OrFalse(move.isEnPassant),
                           isDoublePawnPush |-> OrFalse(move.isDoublePawnPush)],
       !.sideToMove = Flip(room.sideToMove)]

\* Mutant: the move is looked at only after the player and the turn.
MoveError_PayloadLast(rms, mem, s, code, move) ==
    IF s \notin DOMAIN mem THEN "You are not joined to a room"
    ELSE IF code = NoValue THEN "Room code is required"
    ELSE IF mem[s].code # code THEN "You are not part of this room"
    ELSE IF code \notin DOMAIN rms THEN "Room not found"
    ELSE IF FindIndex(rms[code].players, mem[s].uid) = 0 THEN "Player not found in room"
    ELSE IF rms[code].players[FindIndex(rms[code].players, mem[s].uid)].color
              # rms[code].sideToMove
    THEN "Not your turn"
    ELSE IF move.t # "object" THEN "Move payload is required"
    ELSE IF validateMovePayload(move) # "ok" THEN validateMovePayload(move)
    ELSE "ok"

\* Mutant: the turn check is missing.
MoveError_NoTurnCheck(rms, mem, s, code, move) ==
    IF s \notin DOMAIN mem THEN "You are not joined to a room"
    ELSE IF code = NoValue THEN "Room code is required"
    ELSE IF mem[s].code # code THEN "You are not part of this room"
    ELSE IF move.t # "object" THEN "Move payload is required"
    ELSE IF code \notin DOMAIN rms THEN "Room not found"
    ELSE IF FindIndex(rms[code].players, mem[s].uid) = 0 THEN "Player not found in room"
    ELSE IF validateMovePayload(move) # "ok" THEN validateMovePayload(move)
    ELSE "ok"

\* The error handleMove throws for socket s and payload {code, move}, or "ok".
MoveError(rms, mem, s, code, move) ==
    IF s \notin DOMAIN mem THEN "You are not joined to a room"
    ELSE IF code = NoValue THEN "Room code is required"
    ELSE IF mem[s].code # code THEN "You are not part of this room"
    ELSE IF move.t # "object" THEN "Move payload is required"
    ELSE IF code \notin DOMAIN rms THEN "Room not found"
    ELSE IF FindIndex(rms[code].players, mem[s].uid) = 0 THEN "Player not found in room"
    ELSE IF rms[code].players[FindIndex(rms[code].players, mem[s].uid)].color
              # rms[code].sideToMove
    THEN "Not your turn"
    ELSE IF validateMovePayload(move) # "ok" THEN validateMovePayload(move)
    ELSE IF ~validateLegalMove(rms[code].state, move) THEN "Illegal move"
    ELSE "ok"

\* socket.on("move") with payload {code, move}.
Move(s, code, move) ==
    /\ s \in connected
    /\ EventTime
    /\ IF MoveError(rooms, membership, s, code, move) # "ok"
       THEN Throw(s, MoveError(rooms, membership, s, code, move))
       ELSE LET room == applyMoveServer(rooms[code], move)
            IN /\ rooms' = [rooms EXCEPT ![code] = [room EXCEPT !.lastActive = now]]
               /\ out' = <<Msg("move_applied", InChannel(channels, connected, code),
                               [move |-> move, sideToMove |-> room.sideToMove,
                                state |-> room.state])>>
               /\ accepted' = [accepted EXCEPT ![code] = (@ + 1) % 2]
               /\ UNCHANGED <<membership, heldSide>>
    /\ UNCHANGED <<connected, closed, channels, now>>

\* ------------------------------------------------------------ POST /room
\* Mutant: the first code drawn is used, taken or not.
FreshCodes_NoCheck(rms) == Codes

\* The codes the loop `while (rooms[code]) code = genCode()` can end with.
FreshCodes(rms) == {c \in Codes : c \notin DOMAIN rms}

CreateRoom(code) ==
    /\ EventTime
    /\ code \in FreshCodes(rooms)
    /\ rooms' = Put(rooms, code, createRoom(code, now))
    /\ accepted' = [accepted EXCEPT ![code] = 0]
    /\ heldSide' = [heldSide EXCEPT ![code] = NoHeld]
    /\ out' = <<Msg("http_200", {}, [code |-> code])>>
    /\ UNCHANGED <<membership, connected, closed, channels, now>>

\* ------------------------------------------------------- the cleanup sweep
\* Mutant: inactive rooms are removed whether or not they are occupied.
Stale_IgnoresPlayers(room, t) == t - room.lastActive > TEN_MINUTES

\* Mutant: the age of the room is computed the wrong way round.
Stale_Reversed(room, t) == Len(room.players) = 0 /\ room.lastActive - t > TEN_MINUTES

Stale(room, t) == Len(room.players) = 0 /\ t - room.lastActive > TEN_MINUTES

\* The setInterval callback; it fires at every multiple of SWEEP_INTERVAL.
Sweep ==
    /\ now % SWEEP_INTERVAL = 0
    /\ rooms' = Restrict(rooms, {c \in DOMAIN rooms : ~Stale(rooms[c], now)})
    /\ out' = <<>>
    /\ UNCHANGED <<membership, connected, closed, channels, now, accepted, heldSide>>

\* Time passes.
Tick ==
    /\ now < MaxTicks * TickMs
    /\ now' = now + TickMs
    /\ out' = <<>>
    /\ UNCHANGED <<rooms, membership, connected, closed, channels, accepted, heldSide>>

\* ------------------------------------------------------------ specification
Init ==
    /\ rooms = <<>>
    /\ membership = <<>>
    /\ connected = {}
    /\ closed = {}
    /\ channels = [s \in Sockets |-> {}]
    /\ now = 0
    /\ out = <<>>
    /\ accepted = [c \in Codes |-> 0]
    /\ heldSide = [c \in Codes |-> NoHeld]

\* Connections of sockets S opening and closing.
Connections(S) ==
    \/ \E s \in S : Connect(s)
    \/ \E s \in S : Disconnect(s)

\* join_room events of sockets S with payload codes C and identities U.
Joins(S, C, U) == \E s \in S, code \in C, uid \in U : JoinRoom(s, code, uid)

\* move events of sockets S with payload codes C and moves M.
Moves(S, C, M) == \E s \in S, code \in C, move \in M : Move(s, code, move)

\* POST /room requests for which genCode draws from C.
Creates(C) == \E code \in C : CreateRoom(code)

\* One room, three connections, two identities; the clock stands still.
Next ==
    \/ Connections(Sockets)
    \/ Joins(Sockets, {"AAAAAA"}, {"u1", "u2"})
    \/ Moves(Sockets, {"AAAAAA"}, MoveInputs)
    \/ Creates({"AAAAAA"})

Spec == Init /\ [][Next]_vars

\* One room, three connections, three identities, no moves.
CapacityNext ==
    \/ Connections(Sockets)
    \/ Joins(Sockets, {"AAAAAA"}, Uids)
    \/ Creates({"AAAAAA"})

CapacitySpec == Init /\ [][CapacityNext]_vars

\* Two rooms, one connection, two identities; time passes and the sweep runs.
TimedNext ==
    \/ Connections({"s1"})
    \/ Joins({"s1"}, Codes, {"u1", "u2"})
    \/ Moves({"s1"}, Codes, {JUndef, ScenarioMove})
    \/ Creates(Codes)
    \/ Sweep
    \/ Tick

TimedSpec == Init /\ [][TimedNext]_vars

\* Two rooms, two connections, one identity; time passes and the sweep runs.
SweepNext ==
    \/ Connections({"s1", "s2"})
    \/ Joins({"s1", "s2"}, Codes, {"u1"})
    \/ Moves({"s1", "s2"}, Codes, {JUndef, ScenarioMove})
    \/ Creates(Codes)
    \/ Sweep
    \/ Tick

SweepSpec == Init /\ [][SweepNext]_vars

\* Two rooms, two connections that join as u1 or with fields missing; in
\* room BBBBBB the first connection also joins as u2 and the second as u3.
FailureNext ==
    \/ Connections({"s1", "s2"})
    \/ Joins({"s1", "s2"}, Codes \cup {NoValue}, {"u1", NoValue})
    \/ Joins({"s1"}, {"BBBBBB"}, {"u2"})
    \/ Joins({"s2"}, {"BBBBBB"}, {"u3"})
    \/ Moves({"s1", "s2"}, Codes \cup {NoValue}, MoveInputs)
    \/ Creates(Codes)

FailureSpec == Init /\ [][FailureNext]_vars

\* Two rooms, two connections; the first keeps one identity, the second
\* uses two.
SwitchNext ==
    \/ Connections({"s1", "s2"})
    \/ Joins({"s1"}, Codes, {"u1"})
    \/ Joins({"s2"}, Codes, {"u1", "u2"})
    \/ Moves({"s1", "s2"}, Codes, {ScenarioMove})
    \/ Creates(Codes)

SwitchSpec == Init /\ [][SwitchNext]_vars

\* One room and its two players, each on its own connection, sending move
\* objects of every shape.
PayloadNext ==
    \/ Connections({"s1", "s2"})
    \/ Joins({"s1"}, {"AAAAAA"}, {"u1"})
    \/ Joins({"s2"}, {"AAAAAA"}, {"u2"})
    \/ Moves({"s1", "s2"}, {"AAAAAA"}, PayloadInputs)
    \/ Creates({"AAAAAA"})

PayloadSpec == Init /\ [][PayloadNext]_vars

\* The clock advances and the interval timer keeps firing.
LiveSpec == SweepSpec /\ WF_vars(Tick) /\ WF_vars(Sweep)

TypeOK ==
    /\ DOMAIN rooms \subseteq Codes
    /\ DOMAIN membership \subseteq Sockets
    /\ connected \subseteq Sockets
    /\ \A c \in DOMAIN rooms :
          /\ rooms[c].code = c
          /\ rooms[c].sideToMove \in {"WHITE", "BLACK"}
          /\ rooms[c].lastActive <= now

\* ------------------------------------------------------------------ claims
Participants(room) == {room.players[i].uid : i \in 1..Len(room.players)}

SideOf(room, uid) == room.players[FindIndex(room.players, uid)].color

\* C1: an identity that returns to a room whose other participant never
\* left gets the side it held before: whenever a connection without
\* membership joins room c as identity u, and u was the last to leave c,
\* leaving it occupied, u's colour after the join is the colour it held
\* when it left (Scenario D: u1 comes back as WHITE, not BLACK).
C1_RejoinKeepsSide ==
    [][\A c \in Codes, u \in Uids :
          ( /\ c \in DOMAIN rooms /\ c \in DOMAIN rooms'
            /\ u \notin Participants(rooms[c])
            /\ u \in Participants(rooms'[c])
            /\ \E s \in connected :
                  /\ s \notin DOMAIN membership
                  /\ s \in DOMAIN membership'
                  /\ membership'[s] = [code |-> c, uid |-> u]
            /\ heldSide[c].uid = u )
          => SideOf(rooms'[c], u) = heldSide[c].color]_vars

\* C2: in every reachable state the participants of a room hold pairwise
\* distinct sides.
C2_DistinctSides ==
    \A c \in DOMAIN rooms :
        \A i, j \in 1..Len(rooms[c].players) :
            i # j => rooms[c].players[i].color # rooms[c].players[j].color

\* A move event of socket s for room code was accepted by this step.
MoveAccepted(s, code, move) ==
    /\ Len(out') = 1
    /\ out'[1].event = "move_applied"
    /\ Move(s, code, move)

\* Socket s holds a membership for room code whose identity is a
\* participant of that room.
Seated(s, code) ==
    /\ s \in DOMAIN membership
    /\ membership[s].code = code
    /\ code \in DOMAIN rooms
    /\ membership[s].uid \in Participants(rooms[code])

\* This step sent message to socket s alone and changed nothing else.
RejectedWith(s, message) ==
    /\ out' = <<ErrorMsg(s, message)>>
    /\ UNCHANGED <<rooms, membership, channels>>

\* A move is accepted only from a seated socket whose side is the
\* side-to-move, and then the last move is stored, the side-to-move is
\* flipped and move_applied goes to the room's channel.
AcceptedOnlyInTurn ==
    \A s \in Sockets, code \in Codes, move \in MoveInputs :
        MoveAccepted(s, code, move) =>
            /\ Seated(s, code)
            /\ SideOf(rooms[code], membership[s].uid) = rooms[code].sideToMove
            /\ rooms'[code].sideToMove # rooms[code].sideToMove
            /\ rooms'[code].state.lastMove # JNull
            /\ out'[1].to = InChannel(channels, connected, code)

\* C3 as stated: a move is accepted only in turn, and every move event of
\* a seated socket whose side is not the side-to-move is answered with
\* error_msg "Not your turn" to that socket alone, with no broadcast and
\* no change to the room.
C3_NotYourTurn ==
    [][/\ AcceptedOnlyInTurn
       /\ \A s \in Sockets, code \in Codes, move \in MoveInputs :
            ( /\ Seated(s, code)
              /\ SideOf(rooms[code], membership[s].uid) # rooms[code].sideToMove
              /\ Move(s, code, move) )
            => RejectedWith(s, "Not your turn")]_vars

\* C3 amended: as C3, but "Not your turn" is the answer only when the event
\* carries a move object; when the move is absent the same socket is told
\* "Move payload is required" instead, again alone and with no change.
C3_NotYourTurnAmended ==
    [][/\ AcceptedOnlyInTurn
       /\ \A s \in Sockets, code \in Codes, move \in MoveInputs :
            ( /\ Seated(s, code)
              /\ SideOf(rooms[code], membership[s].uid) # rooms[code].sideToMove
              /\ Move(s, code, move) )
            => IF move.t = "object"
               THEN RejectedWith(s, "Not your turn")
               ELSE RejectedWith(s, "Move payload is required")]_vars

\* A participant has just been told "Not your turn" while a move stands.
C3_Witness ==
    /\ Len(out) = 1
    /\ out[1].event = "error_msg"
    /\ out[1].payload.message = "Not your turn"
    /\ \E c \in DOMAIN rooms :
          /\ rooms[c].state.lastMove # JNull
          /\ Len(rooms[c].players) = 2

\* C4: in every room the side-to-move is WHITE when the number of moves
\* accepted since creation or the last zero-participant reset is even, and
\* BLACK when it is odd; no other event changes it.
C4_TurnParity ==
    \A c \in DOMAIN rooms :
        rooms[c].sideToMove = IF accepted[c] = 0 THEN "WHITE" ELSE "BLACK"

\* An even, non-zero number of moves has been accepted in an occupied room.
C4_Witness ==
    \E c \in DOMAIN rooms :
        /\ accepted[c] = 0
        /\ rooms[c].state.lastMove # JNull
        /\ rooms[c].sideToMove = "WHITE"

\* C5: a join by an identity that is already a participant of the room
\* leaves the roster as it was except for that participant's connection
\* handle, which becomes the joining socket; joining again from the same
\* socket changes nothing in the roster.
C5_JoinIdempotent ==
    [][\A s \in Sockets, c \in Codes, u \in Uids :
          ( /\ c \in DOMAIN rooms
            /\ u \in Participants(rooms[c])
            /\ JoinRoom(s, c, u) )
          => LET i == FindIndex(rooms[c].players, u)
             IN /\ Len(rooms'[c].players) = Len(rooms[c].players)
                /\ rooms'[c].players[i] = [uid |-> u,
                                           color |-> rooms[c].players[i].color,
                                           socketId |-> s]
                /\ \A j \in 1..Len(rooms[c].players) :
                      j # i => rooms'[c].players[j] = rooms[c].players[j]
                /\ (rooms[c].players[i].socketId = s
                      => rooms'[c].players = rooms[c].players)]_vars

\* A participant of a two-player room was joined again from another
\* connection: two open sockets hold the membership of one seat.
C5_Witness ==
    \E c \in DOMAIN rooms, s1, s2 \in connected :
        /\ s1 # s2
        /\ Len(rooms[c].players) = 2
        /\ s1 \in DOMAIN membership /\ s2 \in DOMAIN membership
        /\ membership[s1] = membership[s2]
        /\ membership[s1].code = c
        /\ \E i \in 1..2 : /\ rooms[c].players[i].uid = membership[s1].uid
                           /\ rooms[c].players[i].socketId = s2

CapacityInv ==
    \A c \in DOMAIN rooms :
        /\ Len(rooms[c].players) \in {0, 1, 2}
        /\ \A i, j \in 1..Len(rooms[c].players) :
              i # j => rooms[c].players[i].uid # rooms[c].players[j].uid

\* C6: every room has at most two participants, with distinct identities,
\* and a join of a full room by an identity that is not one of its
\* participants is answered "Room is full" and changes nothing.
C6_Capacity ==
    [][/\ CapacityInv'
       /\ \A s \in Sockets, c \in Codes, u \in Uids :
            ( /\ c \in DOMAIN rooms
              /\ Len(rooms[c].players) = 2
              /\ u \notin Participants(rooms[c])
              /\ JoinRoom(s, c, u) )
            => /\ RejectedWith(s, "Room is full")
               /\ Len(rooms'[c].players) = 2]_vars

\* A third identity has just been turned away from a full room.
C6_Witness ==
    /\ Len(out) = 1
    /\ out[1].event = "error_msg"
    /\ out[1].payload.message = "Room is full"
    /\ \E c \in DOMAIN rooms : Len(rooms[c].players) = 2

\* C7: a room leaves the store only in a sweep step, and only if it has no
\* participants and was last active more than ten minutes ago; a sweep
\* removes every such room and leaves every other room as it was.
C7_ReclamationSafety ==
    [][/\ \A c \in (DOMAIN rooms) \ (DOMAIN rooms') :
            /\ Sweep
            /\ Len(rooms[c].players) = 0
            /\ now - rooms[c].lastActive > TEN_MINUTES
       /\ Sweep =>
            \A c \in DOMAIN rooms :
                IF Len(rooms[c].players) = 0 /\ now - rooms[c].lastActive > TEN_MINUTES
                THEN c \notin DOMAIN rooms'
                ELSE c \in DOMAIN rooms' /\ rooms'[c] = rooms[c]]_vars

\* A room that a socket had joined is gone from the store, while a room
\* with a participant, inactive for more than ten minutes, is still there.
C7_Witness ==
    /\ \E s \in DOMAIN membership : membership[s].code \notin DOMAIN rooms
    /\ \E c \in DOMAIN rooms :
          /\ Len(rooms[c].players) > 0
          /\ now - rooms[c].lastActive > TEN_MINUTES

\* C8: a room without participants is eventually removed from the store
\* unless a join gives it a participant first, and a join with the code of
\* a room that is not in the store is answered "Room not found".
C8_ReclamationLiveness ==
    /\ \A c \in Codes :
          (c \in DOMAIN rooms /\ Len(rooms[c].players) = 0)
             ~> (c \notin DOMAIN rooms \/ Len(rooms[c].players) > 0)
    /\ [][\A s \in Sockets, c \in Codes, u \in Uids :
            (c \notin DOMAIN rooms /\ JoinRoom(s, c, u))
            => RejectedWith(s, "Room not found")]_vars

\* A join has just failed with "Room not found" on a room that had been
\* joined before and has since been removed.
C8_Witness ==
    /\ Len(out) = 1
    /\ out[1].event = "error_msg"
    /\ out[1].payload.message = "Room not found"
    /\ \E s \in connected :
          /\ s \in DOMAIN membership
          /\ membership[s].code \notin DOMAIN rooms
          /\ out[1].to = {s}

\* C9: every room in the store without participants has side-to-move WHITE
\* and the initial game state.
C9_VacancyReset ==
    \A c \in DOMAIN rooms :
        Len(rooms[c].players) = 0
        => /\ rooms[c].sideToMove = "WHITE"
           /\ rooms[c].state = [lastMove |-> JNull, boardFEN |-> "startpos"]

\* The last participant has just left a room in which BLACK was to move:
\* the snapshot sent by the leave still shows BLACK, the room shows WHITE.
C9_Witness ==
    /\ Len(out) = 1
    /\ out[1].event = "room_state"
    /\ out[1].payload.players = <<>>
    /\ out[1].payload.sideToMove = "BLACK"
    /\ out[1].payload.state.lastMove # JNull
    /\ out[1].payload.code \in DOMAIN rooms
    /\ Len(rooms[out[1].payload.code].players) = 0

\* C10: POST /room answers with a code that was not a key of the store,
\* registers under it a room with no participants, WHITE to move and the
\* initial game state, and leaves every other room as it was.
C10_CreateFresh ==
    [][\A c \in Codes :
          ( /\ Len(out') = 1
            /\ out'[1].event = "http_200"
            /\ out'[1].payload.code = c )
          => /\ c \notin DOMAIN rooms
             /\ DOMAIN rooms' = (DOMAIN rooms) \cup {c}
             /\ rooms'[c] = [code |-> c, players |-> <<>>,
                             state |-> [lastMove |-> JNull, boardFEN |-> "startpos"],
                             sideToMove |-> "WHITE", lastActive |-> now]
             /\ \A d \in DOMAIN rooms : rooms'[d] = rooms[d]]_vars

\* A room has just been created while another room, with a participant and
\* a move played, is in the store.
C10_Witness ==
    /\ Len(out) = 1
    /\ out[1].event = "http_200"
    /\ out[1].payload.code \in DOMAIN rooms
    /\ \E d \in DOMAIN rooms :
          /\ d # out[1].payload.code
          /\ Len(rooms[d].players) > 0
          /\ rooms[d].state.lastMove # JNull

\* This step answered socket s with one error_msg and nothing else, and
\* left the store, the memberships and the channels as they were.
FailedAt(s) ==
    /\ Len(out') = 1
    /\ out'[1].event = "error_msg"
    /\ out'[1].to = {s}
    /\ UNCHANGED <<rooms, membership, channels, connected, closed, now>>

\* Payload {code, uid} of a join_room event is one handleJoinRoom refuses.
JoinRefused(code, uid) ==
    \/ code = NoValue
    \/ uid = NoValue
    \/ code \notin DOMAIN rooms
    \/ /\ Len(rooms[code].players) >= 2
       /\ uid \notin Participants(rooms[code])

\* A move object that breaks the structural rules of the move payload.
Malformed(move) ==
    \/ move.from.t # "int" \/ move.to.t # "int"
    \/ move.from.v \notin 0..63 \/ move.to.v \notin 0..63
    \/ move.from.v = move.to.v
    \/ /\ move.promo.t \notin {"undefined", "null"}
       /\ move.promo \notin {JStr("Q"), JStr("R"), JStr("B"), JStr("N")}
    \/ \E f \in {move.isCastle, move.isEnPassant, move.isDoublePawnPush} :
          f.t \notin {"undefined", "boolean"}

\* Payload {code, move} of a move event of socket s is one handleMove refuses.
MoveRefused(s, code, move) ==
    \/ s \notin DOMAIN membership
    \/ code = NoValue
    \/ membership[s].code # code
    \/ move.t # "object"
    \/ code \notin DOMAIN rooms
    \/ membership[s].uid \notin Participants(rooms[code])
    \/ SideOf(rooms[code], membership[s].uid) # rooms[code].sideToMove
    \/ Malformed(move)

\* C11: every join or move event that fails leaves the store, every
\* membership and every channel as before and sends exactly one error_msg,
\* to the originating connection; a step that sends an error_msg sends
\* nothing else and changes nothing.
C11_FailureAtomicity ==
    [][/\ (\E i \in 1..Len(out') : out'[i].event = "error_msg")
            => \E s \in connected : FailedAt(s)
       /\ \A s \in connected :
            FailedAt(s) \/
            /\ \A code \in Codes \cup {NoValue}, uid \in Uids \cup {NoValue} :
                  ~(JoinRefused(code, uid) /\ JoinRoom(s, code, uid))
            /\ \A code \in Codes \cup {NoValue}, move \in MoveInputs :
                  ~(MoveRefused(s, code, move) /\ Move(s, code, move))]_vars

\* A connection seated in one room has just been refused by another, full
\* room and still is where it was.
C11_Witness ==
    /\ Len(out) = 1
    /\ out[1].event = "error_msg"
    /\ out[1].payload.message = "Room is full"
    /\ \E s \in connected :
          /\ out[1].to = {s}
          /\ s \in DOMAIN membership
          /\ membership[s].code \in DOMAIN rooms
          /\ Len(rooms[membership[s].code].players) = 1
          /\ membership[s].uid \in Participants(rooms[membership[s].code])
          /\ membership[s].code \in channels[s]

\* ------------------------------------------------------------------- C12
\* The open connections other than s whose membership is for room code.
MembersOf(code, s) ==
    {t \in connected \ {s} : t \in DOMAIN membership /\ membership[t].code = code}

\* The roster a room_state payload lists for a room.
Roster(room) ==
    [i \in 1..Len(room.players) |->
        [uid |-> room.players[i].uid, color |-> room.players[i].color]]

\* join_room {code, uid} is not refused in the current state.
JoinAdmitted(code, uid) ==
    /\ code \in DOMAIN rooms
    /\ Len(rooms[code].players) < 2 \/ uid \in Participants(rooms[code])

\* What the leave of identity u from room a by socket s has done in a step.
LeftPrevious(s, a, u) ==
    /\ u \notin Participants(rooms'[a])
    /\ Len(rooms'[a].players) = 0
         => rooms'[a].sideToMove = "WHITE" /\ rooms'[a].state = initialState
    /\ u \in Participants(rooms[a])
         => /\ Len(out') >= 2
            /\ out'[1].event = "room_state"
            /\ out'[1].payload.code = a
            /\ out'[1].payload.players = Roster(rooms'[a])
            /\ MembersOf(a, s) \subseteq out'[1].to
            /\ s \notin out'[1].to
            /\ out'[2].event = "room_joined"

Disconnected(s) == s \in connected /\ s \notin connected'

\* What a disconnect has done for the membership (c, u) the socket held.
LeaveDone(s, c, u) ==
    c \in DOMAIN rooms
      => /\ c \in DOMAIN rooms'
         /\ u \notin Participants(rooms'[c])
         /\ u \in Participants(rooms[c])
              => /\ rooms'[c].lastActive = now
                 /\ Len(out') = 1
                 /\ out'[1].event = "room_state"
                 /\ out'[1].payload.code = c
                 /\ out'[1].payload.players = Roster(rooms'[c])
                 /\ MembersOf(c, s) \subseteq out'[1].to

\* C13: once the disconnect of a connection has been handled the connection
\* holds no membership, whatever the state was; if it held (c, u), u is not
\* a participant of c any more, c's lastActive was set if u was removed and
\* the remaining members of c were sent room_state with the remaining
\* roster; a disconnect without membership changes nothing.
C13_Disconnect ==
    [][\A s \in Sockets :
         Disconnected(s)
         => /\ s \notin DOMAIN membership'
            /\ IF s \in DOMAIN membership
               THEN LeaveDone(s, membership[s].code, membership[s].uid)
               ELSE /\ UNCHANGED <<rooms, membership, channels, now>>
                    /\ out' = <<>>]_vars
\* ------------------------------------------------------------------- C14
\* The notifications a successful join of room code as uid by socket s ends
\* with: room_joined, opponent_joined when uid is new and the room had one
\* participant, and room_state.
JoinTail(s, code, uid) ==
    LET second == uid \notin Participants(rooms[code]) /\ Len(rooms[code].players) = 1
    IN <<"room_joined">> \o (IF second THEN <<"opponent_joined">> ELSE <<>>)
         \o <<"room_state">>

\* The messages of out' from position k on are the notifications of the join.
JoinNotified(s, code, uid, k) ==
    LET tail == JoinTail(s, code, uid)
        n == Len(out')
    IN /\ n = k + Len(tail) - 1
       /\ \A i \in 1..Len(tail) : out'[k + i - 1].event = tail[i]
       /\ out'[k].to = {s}
       /\ out'[k].payload = [code |-> code,
                             color |-> toLowerCase(SideOf(rooms'[code], uid))]
       /\ Len(tail) = 3
            => /\ out'[k + 1].to = {rooms[code].players[1].socketId} \cap connected
               /\ out'[k + 1].payload = [empty |-> TRUE]
       /\ out'[n].payload.code = code
       /\ out'[n].payload.players = Roster(rooms'[code])
       /\ MembersOf(code, s) \cup {s} \subseteq out'[n].to

\* C14: a successful join sends room_joined {code, color} to the joining
\* socket alone, color being the lowercase of the side the participant has;
\* then opponent_joined {} to the socket of the participant that was there,
\* exactly when the join adds a new identity to a room of one; and last a
\* room_state with the roster after the join to the members of the room.
\* Nothing precedes room_joined but the room_state of a room that was left.
C14_JoinNotifications ==
    [][\A s \in connected : \A code \in Codes, uid \in Uids :
         (JoinAdmitted(code, uid) /\ JoinRoom(s, code, uid))
         => \/ JoinNotified(s, code, uid, 1)
            \/ /\ JoinNotified(s, code, uid, 2)
               /\ out'[1].event = "room_state"
               /\ out'[1].payload.code # code]_vars

\* The second identity has joined: the joiner was told its side, the socket
\* of the first participant was told of the opponent, both got the roster.
C14_Witness ==
    /\ Len(out) = 3
    /\ out[1].event = "room_joined"
    /\ out[1].payload.color = "black"
    /\ out[2].event = "opponent_joined"
    /\ out[3].event = "room_state"
    /\ Len(out[3].payload.players) = 2
    /\ \E s, t \in connected :
         /\ s # t
         /\ out[1].to = {s}
         /\ out[2].to = {t}
         /\ {s, t} \subseteq out[3].to
\* ------------------------------------------------------------------- C15
\* The promotion piece a move submits, or null when it submits none.
PromoOrNull(move) == IF move.promo.t = "string" THEN move.promo ELSE JNull

\* The flag a move submits, or false when it submits none.
FlagOrFalse(x) == IF x.t = "boolean" THEN x ELSE JBool(FALSE)

\* The record the claim says is stored for a submitted move.
Normalized(move) ==
    [from |-> move.from, to |-> move.to, promo |-> PromoOrNull(move),
     isCastle |-> FlagOrFalse(move.isCastle),
     isEnPassant |-> FlagOrFalse(move.isEnPassant),
     isDoublePawnPush |-> FlagOrFalse(move.isDoublePawnPush)]

\* C15: after every accepted move the room's lastMove, and the state that
\* move_applied carries, has exactly the fields from, to, promo, isCastle,
\* isEnPassant and isDoublePawnPush; from and to are the submitted squares,
\* promo the submitted piece or null, each flag the submitted boolean or
\* false.  Move {from: 12, to: 28} is stored as
\* {from: 12, to: 28, promo: null, isCastle: false, isEnPassant: false,
\* isDoublePawnPush: false}.
C15_LastMoveNormalized ==
    [][\A s \in connected : \A move \in PayloadInputs :
         ( /\ Len(out') = 1
           /\ out'[1].event = "move_applied"
           /\ Move(s, "AAAAAA", move) )
         => /\ DOMAIN rooms'["AAAAAA"].state.lastMove =
                 {"from", "to", "promo", "isCastle", "isEnPassant", "isDoublePawnPush"}
            /\ rooms'["AAAAAA"].state.lastMove = Normalized(move)
            /\ out'[1].payload.state = rooms'["AAAAAA"].state
            /\ move = ScenarioMove
                 => rooms'["AAAAAA"].state.lastMove =
                      [from |-> JInt(12), to |-> JInt(28), promo |-> JNull,
                       isCastle |-> JBool(FALSE), isEnPassant |-> JBool(FALSE),
                       isDoublePawnPush |-> JBool(FALSE)]]_vars

\* A move that carried a field of its own and no optional field has been
\* accepted and stored.
C15_Witness ==
    /\ Len(out) = 1
    /\ out[1].event = "move_applied"
    /\ "piece" \in DOMAIN out[1].payload.move
    /\ out[1].payload.move.promo = JUndef
    /\ out[1].payload.state.lastMove.promo = JNull
    /\ rooms["AAAAAA"].state.lastMove.isCastle = JBool(FALSE)
\* ------------------------------------------------------------------- C16
OnBoard(x) == x.t = "int" /\ x.v >= 0 /\ x.v <= 63

\* A field that the payload does not have.
Absent(x) == x.t = "undefined"

Piece(x) == x.t = "string" /\ x.v \in {"Q", "R", "B", "N"}

FlagsWellFormed(move) ==
    \A x \in {move.isCastle, move.isEnPassant, move.isDoublePawnPush} :
        Absent(x) \/ x.t = "boolean"

\* The move objects the claim says are accepted.
WellFormedAsStated(move) ==
    /\ OnBoard(move.from) /\ OnBoard(move.to)
    /\ move.from # move.to
    /\ Absent(move.promo) \/ Piece(move.promo)
    /\ FlagsWellFormed(move)

\* The same, with a promo of null accepted as well.
WellFormed(move) ==
    /\ OnBoard(move.from) /\ OnBoard(move.to)
    /\ move.from # move.to
    /\ Absent(move.promo) \/ move.promo = JNull \/ Piece(move.promo)
    /\ FlagsWellFormed(move)

\* The move event of socket s, seated and in turn, with a move object:
\* the object is accepted when ok holds and refused otherwise, equal
\* squares and squares off the board with the errors named.
Validated(s, move, ok) ==
    ( /\ Seated(s, "AAAAAA")
      /\ SideOf(rooms["AAAAAA"], membership[s].uid) = rooms["AAAAAA"].sideToMove
      /\ Move(s, "AAAAAA", move) )
    => /\ IF ok
          THEN /\ Len(out') = 1
               /\ out'[1].event = "move_applied"
               /\ out'[1].payload.move = move
          ELSE /\ Len(out') = 1
               /\ out'[1].event = "error_msg"
               /\ out'[1].to = {s}
               /\ UNCHANGED rooms
       /\ (OnBoard(move.from) /\ move.from = move.to)
            => RejectedWith(s, "From and to squares must differ")
       /\ ( /\ move.from.t = "int" /\ move.to.t = "int"
            /\ ~(OnBoard(move.from) /\ OnBoard(move.to)) )
            => RejectedWith(s, "Squares must be between 0 and 63")

\* C16 as stated: a move object is accepted exactly when from and to are
\* integers in 0..63 and differ, promo is absent or one of Q, R, B, N, and
\* each flag is absent or a boolean; equal squares are reported as "From
\* and to squares must differ", a square off the board as a range error.
C16_StructuralValidation ==
    [][\A s \in connected : \A move \in PayloadInputs :
         Validated(s, move, WellFormedAsStated(move))]_vars

\* C16 amended: as C16, but a promo of null is accepted like an absent one
\* (a flag of null is refused).
C16_StructuralValidationAmended ==
    [][\A s \in connected : \A move \in PayloadInputs :
         Validated(s, move, WellFormed(move))]_vars

\* A move whose promo is null has been accepted.
C16_Witness ==
    /\ Len(out) = 1
    /\ out[1].event = "move_applied"
    /\ out[1].payload.move.promo = JNull
    /\ rooms["AAAAAA"].state.lastMove.from = out[1].payload.move.from
\* ------------------------------------------------------------------- C17
\* The messages of the checks on the move itself.
MalformedMessages ==
    {"Move coordinates must be integers", "Squares must be between 0 and 63",
     "From and to squares must differ", "Promotion piece must be Q, R, B, or N",
     "isCastle must be boolean", "isEnPassant must be boolean",
     "isDoublePawnPush must be boolean"}

\* The failures of the membership, in the order of the claim: the messages
\* a move event of socket s for room code may be answered with, none when
\* the membership, the player and the turn are in order.
SeatFailure(s, code) ==
    IF s \notin DOMAIN membership THEN {"You are not joined to a room"}
    ELSE IF membership[s].code # code THEN {"You are not part of this room"}
    ELSE IF membership[s].uid \notin Participants(rooms[code])
    THEN {"Player not found in room"}
    ELSE IF SideOf(rooms[code], membership[s].uid) # rooms[code].sideToMove
    THEN {"Not your turn"}
    ELSE {}

\* The order of the claim: NotJoined, RoomMismatch, PlayerNotFound,
\* NotYourTurn, then InvalidMove for a move that is absent or malformed.
FirstFailureAsStated(s, code, move) ==
    IF SeatFailure(s, code) # {} THEN SeatFailure(s, code)
    ELSE IF move.t # "object" THEN {"Move payload is required"}
    ELSE IF Malformed(move) THEN MalformedMessages
    ELSE {}

\* The same order, but an absent move comes right after RoomMismatch.
FirstFailure(s, code, move) ==
    IF s \notin DOMAIN membership THEN {"You are not joined to a room"}
    ELSE IF membership[s].code # code THEN {"You are not part of this room"}
    ELSE IF move.t # "object" THEN {"Move payload is required"}
    ELSE IF SeatFailure(s, code) # {} THEN SeatFailure(s, code)
    ELSE IF Malformed(move) THEN MalformedMessages
    ELSE {}

\* This step answered with failure, one of the messages F, or accepted the
\* move when F is empty.
AnsweredWith(s, F) ==
    /\ Len(out') = 1
    /\ IF F = {}
       THEN out'[1].event = "move_applied"
       ELSE /\ out'[1].event = "error_msg"
            /\ out'[1].to = {s}
            /\ out'[1].payload.message \in F

\* C17 as stated: a move event for which several failure conditions hold is
\* answered with the first in the order NotJoined, RoomMismatch,
\* PlayerNotFound, NotYourTurn, InvalidMove (move absent, not an object or
\* malformed); an out-of-turn or removed participant that sends an absent
\* or malformed move is told NotYourTurn or PlayerNotFound.
C17_MoveErrorPrecedence ==
    [][UNCHANGED <<membership, channels, connected>> =>
         \A s \in connected : \A code \in Codes, move \in MoveInputs :
           Move(s, code, move) => AnsweredWith(s, FirstFailureAsStated(s, code, move))]_vars

\* C17 amended: the order is NotJoined, RoomMismatch, absent move ("Move
\* payload is required"), PlayerNotFound, NotYourTurn, malformed move
\* object; only a malformed move object yields to PlayerNotFound and
\* NotYourTurn.
C17_MoveErrorPrecedenceAmended ==
    [][UNCHANGED <<membership, channels, connected>> =>
         \A s \in connected : \A code \in Codes, move \in MoveInputs :
           Move(s, code, move) => AnsweredWith(s, FirstFailure(s, code, move))]_vars

\* A participant that is not on turn, or not in the room any more, has sent
\* no move and was told that the move is required.
C17_Witness ==
    /\ Len(out) = 1
    /\ out[1].event = "error_msg"
    /\ out[1].payload.message = "Move payload is required"
    /\ \E s \in connected :
         /\ out[1].to = {s}
         /\ s \in DOMAIN membership
         /\ SeatFailure(s, membership[s].code) # {}
\* ------------------------------------------------------------------- C18
\* The socket recorded for participant uid of a room.
HandleOf(room, uid) == room.players[FindIndex(room.players, uid)].socketId

\* Socket h disconnects or moves to another room than code in this step.
LeavesRoom(h, code) ==
    /\ h \in connected
    /\ \/ h \notin connected'
       \/ /\ h \in DOMAIN membership
          /\ membership[h].code = code
          /\ h \in DOMAIN membership'
          /\ membership'[h].code # code

\* C18: a participant is removed from a room only by the disconnect or the
\* room switch of the connection that is its current handle; once identity
\* u has joined room c again through connection S2, the disconnect of its
\* earlier connection S1 does not remove u from c.
C18_RemovedOnlyByHandle ==
    [][\A code \in DOMAIN rooms :
         \A uid \in Participants(rooms[code]) :
           (code \in DOMAIN rooms' /\ uid \notin Participants(rooms'[code]))
           => LeavesRoom(HandleOf(rooms[code], uid), code)]_vars
\* ------------------------------------------------------------------- C19
\* C19: every participant (room c, identity u) in the store is the
\* membership of at least one open connection, also after one connection
\* has joined the same room under several identities; so when no
\* connection is open every room has no participant.
C19_NoOrphans ==
    /\ \A code \in DOMAIN rooms :
         \A uid \in Participants(rooms[code]) :
           \E s \in connected :
             /\ s \in DOMAIN membership
             /\ membership[s] = [code |-> code, uid |-> uid]
    /\ connected = {} => \A code \in DOMAIN rooms : Len(rooms[code].players) = 0

\* ------------------------------------------------------------------- C20
\* C20: whenever a move is accepted (side-to-move flipped, move_applied
\* broadcast) the room holds exactly two participants; a move sent while
\* the room has a single participant is not applied.
C20_AcceptedOnlyWhenActive ==
    [][UNCHANGED <<membership, channels, connected>> =>
         \A s \in connected : \A code \in Codes, move \in MoveInputs :
           MoveAccepted(s, code, move) => Len(rooms[code].players) = 2]_vars
====
